---- MODULE Spec2Model ----
(***************************************************************************)
(* A model of the chain-parameter registry (core/src/global.rs) and of the *)
(* peer address / peer liveness types (p2p/src/types.rs) of mwc-node.      *)
(*                                                                         *)
(* The module holds seven state machines over one set of variables:       *)
(*   SpecProfile     the process-wide / thread-local chain type and the    *)
(*                   accessors derived from it                             *)
(*   SpecNode        the chain type, create_pow_context and the            *)
(*                   SERVER_RUNNING flag                                   *)
(*   SpecAddr        PeerAddr: write, read, eq, as_key, hash               *)
(*   SpecWire        PeerAddr::read of a byte stream a peer sent           *)
(*   SpecPeer        PeerInfo::update and the read accessors on live_info  *)
(*   SpecDisplay     PeerInfoDisplay::from(PeerInfo) beside PeerInfo::update *)
(*   SpecDifficulty  difficulty_data_to_vector                             *)
(* Each one holds the variables it does not use at their idle value.        *)
(***************************************************************************)
EXTENDS Integers, Sequences, FiniteSets, TLC

VARIABLES
    \* ---- chain profile registry (global.rs) ----
    GLOBAL_CHAIN_TYPE,  \* the OneTime<ChainTypes> cell: None or a chain type
    CHAIN_TYPE,         \* thread -> the thread_local Cell<Option<ChainTypes>>
    status,             \* thread -> "running" | "panicked"
    calls,              \* number of calls made so far
    last,               \* the record of the most recent call
    prev,               \* the record of the call before it
    SERVER_RUNNING,     \* the Arc<AtomicBool> running flag
    \* ---- PeerAddr (types.rs) ----
    addr_self,          \* the PeerAddr that is written and compared
    addr_other,         \* the PeerAddr it is compared with
    write_result,       \* what PeerAddr::write returned and wrote, once called
    read_result,        \* what PeerAddr::read returned for the bytes written, once called
    eq_result,          \* whether addr_self == addr_other, once compared
    key_result,         \* as_key of addr_self and of addr_other, once called
    hash_result,        \* what hash fed the hasher for each of the two, once called
    wire,               \* a byte stream received from a peer, and what it was built from
    wire_result,        \* what PeerAddr::read returned for it, once called
    wire_next,          \* what a second PeerAddr::read returned for the rest
    \* ---- PeerInfo (types.rs) ----
    live_info,          \* the PeerLiveInfo behind the RwLock
    lock,               \* the RwLock: its writer and its readers
    now,                \* what Utc::now() returns
    peer_pc,            \* thread -> where it is in update or in an accessor
    peer_args,          \* thread -> the arguments of the call it is in
    peer_pre,           \* thread -> live_info and the time when its update began
    peer_got,           \* thread -> the field and value the accessor it called last
                        \* returned, until its next call
    \* ---- PeerInfoDisplay::from (types.rs) ----
    display_pc,         \* where the converting thread is in PeerInfoDisplay::from
    display,            \* the total_difficulty and height it has read so far
    stored_pairs,       \* history: every (height, total_difficulty) live_info has held
    \* ---- difficulty_data_to_vector (global.rs) ----
    window_cursor,      \* the header samples the cursor yields, newest first
    overflow_checks,    \* whether the build checks integer overflow
    window_result       \* what difficulty_data_to_vector returned, once called

profileVars == <<GLOBAL_CHAIN_TYPE, CHAIN_TYPE, status, calls, last, prev,
                 SERVER_RUNNING>>

addrVars == <<addr_self, addr_other, write_result, read_result, eq_result,
              key_result, hash_result>>

wireVars == <<wire, wire_result, wire_next>>

difficultyVars == <<window_cursor, overflow_checks, window_result>>

peerVars == <<live_info, lock, now, peer_pc, peer_args, peer_pre, peer_got>>

displayVars == <<display_pc, display, stored_pairs>>

\* What the actions of one state machine leave alone.
notProfileVars == <<addrVars, wireVars, peerVars, displayVars, difficultyVars>>
notAddrVars == <<profileVars, wireVars, peerVars, displayVars, difficultyVars>>
notWireVars == <<profileVars, addrVars, peerVars, displayVars, difficultyVars>>
notPeerVars == <<profileVars, addrVars, wireVars, displayVars, difficultyVars>>
notDisplayVars == <<profileVars, addrVars, wireVars, difficultyVars>>
notDifficultyVars == <<profileVars, addrVars, wireVars, peerVars, displayVars>>

vars == <<GLOBAL_CHAIN_TYPE, CHAIN_TYPE, status, calls, last, prev,
          SERVER_RUNNING,
          addr_self, addr_other, write_result, read_result, eq_result,
          key_result, hash_result, wire, wire_result, wire_next,
          live_info, lock, now, peer_pc, peer_args, peer_pre, peer_got,
          display_pc, display, stored_pairs,
          window_cursor, overflow_checks, window_result>>

None == "None"

(***************************************************************************)
(* Chain profile registry                                                  *)
(***************************************************************************)

ChainTypes == {"AutomatedTesting", "PerfTesting", "UserTesting", "Floonet", "Mainnet"}

\* The threads of the process that touch the registry.
Threads == {"t1", "t2"}

\* Calls made in one behaviour.
MaxCalls == 4

\* ---- constants of global.rs ----
AUTOMATED_TESTING_MIN_EDGE_BITS == 10
AUTOMATED_TESTING_PROOF_SIZE == 8
USER_TESTING_MIN_EDGE_BITS == 15
USER_TESTING_PROOF_SIZE == 42
AUTOMATED_TESTING_COINBASE_MATURITY == 3
USER_TESTING_COINBASE_MATURITY == 3
AUTOMATED_TESTING_CUT_THROUGH_HORIZON == 20
USER_TESTING_CUT_THROUGH_HORIZON == 70
TESTING_STATE_SYNC_THRESHOLD == 20
TESTING_MAX_BLOCK_WEIGHT == 250
TESTING_TXHASHSET_ARCHIVE_INTERVAL == 10
TXHASHSET_ARCHIVE_INTERVAL == 12 * 60

\* ---- constants of crate::consensus, imported at global.rs:19-24 ----
BLOCK_TIME_SEC == 60
DAY_HEIGHT == 1440
DEFAULT_MIN_EDGE_BITS == 31
BASE_EDGE_BITS == 24
PROOFSIZE == 42
COINBASE_MATURITY == DAY_HEIGHT
CUT_THROUGH_HORIZON == 7 * DAY_HEIGHT
STATE_SYNC_THRESHOLD == 2 * DAY_HEIGHT
MAX_BLOCK_WEIGHT == 40000
BLOCK_OUTPUT_WEIGHT == 21
BLOCK_KERNEL_WEIGHT == 3
DIFFICULTY_ADJUST_WINDOW == 60

\* ---- util::OneTime<T>: a cell written at most once ----
OneTime_new == None

OneTime_is_init(cell) == cell # None

\* init asserts that the cell is empty: a second init panics and writes nothing.
OneTime_init(cell, value) ==
    IF cell = None
    THEN [panic |-> FALSE, cell |-> value]
    ELSE [panic |-> TRUE, cell |-> cell]

\* borrow of an empty cell panics.
OneTime_borrow(cell) ==
    IF cell = None
    THEN [panic |-> TRUE, value |-> None]
    ELSE [panic |-> FALSE, value |-> cell]

\* u64::saturating_sub
saturating_sub(a, b) == IF a >= b THEN a - b ELSE 0

\* ---- the functions of global.rs, as functions of the storage they read ----

\* set_local_chain_type: the new content of the caller's thread_local cell.
set_local_chain_type(local, new_type) == new_type

\* init_global_chain_type written without OneTime's assertion.
init_global_chain_type_overwrite(global, new_type) ==
    [panic |-> FALSE, cell |-> new_type]

\* init_global_chain_type: GLOBAL_CHAIN_TYPE.init(new_type).
init_global_chain_type(global, new_type) == OneTime_init(global, new_type)

\* get_chain_type that asks the process-wide value first.
get_chain_type_global_first(local, global) ==
    IF OneTime_is_init(global)
    THEN [panic |-> FALSE, chain_type |-> OneTime_borrow(global).value, local |-> local]
    ELSE IF local # None
         THEN [panic |-> FALSE, chain_type |-> local, local |-> local]
         ELSE [panic |-> TRUE, chain_type |-> None, local |-> local]

\* get_chain_type: the thread_local value, else the global one (which is then
\* cached in the thread_local cell), else a panic.
get_chain_type(local, global) ==
    IF local = None
    THEN IF OneTime_is_init(global)
         THEN LET b == OneTime_borrow(global)
              IN  [panic |-> b.panic, chain_type |-> b.value,
                   local |-> IF b.panic THEN local
                             ELSE set_local_chain_type(local, b.value)]
         ELSE [panic |-> TRUE, chain_type |-> None, local |-> local]
    ELSE [panic |-> FALSE, chain_type |-> local, local |-> local]

min_edge_bits(chain_type) ==
    CASE chain_type \in {"AutomatedTesting", "PerfTesting"} -> AUTOMATED_TESTING_MIN_EDGE_BITS
      [] chain_type = "UserTesting" -> USER_TESTING_MIN_EDGE_BITS
      [] OTHER -> DEFAULT_MIN_EDGE_BITS

base_edge_bits(chain_type) ==
    CASE chain_type \in {"AutomatedTesting", "PerfTesting"} -> AUTOMATED_TESTING_MIN_EDGE_BITS
      [] chain_type = "UserTesting" -> USER_TESTING_MIN_EDGE_BITS
      [] OTHER -> BASE_EDGE_BITS

proofsize(chain_type) ==
    CASE chain_type \in {"AutomatedTesting", "PerfTesting"} -> AUTOMATED_TESTING_PROOF_SIZE
      [] chain_type = "UserTesting" -> USER_TESTING_PROOF_SIZE
      [] OTHER -> PROOFSIZE

\* coinbase_maturity with the PerfTesting arm moved to the production value.
coinbase_maturity_perf_production(chain_type) ==
    CASE chain_type = "AutomatedTesting" -> AUTOMATED_TESTING_COINBASE_MATURITY
      [] chain_type = "UserTesting" -> USER_TESTING_COINBASE_MATURITY
      [] OTHER -> COINBASE_MATURITY

coinbase_maturity(chain_type) ==
    CASE chain_type \in {"AutomatedTesting", "PerfTesting"} -> AUTOMATED_TESTING_COINBASE_MATURITY
      [] chain_type = "UserTesting" -> USER_TESTING_COINBASE_MATURITY
      [] OTHER -> COINBASE_MATURITY

max_block_weight(chain_type) ==
    CASE chain_type = "AutomatedTesting" -> TESTING_MAX_BLOCK_WEIGHT
      [] chain_type = "PerfTesting" -> MAX_BLOCK_WEIGHT
      [] chain_type = "UserTesting" -> TESTING_MAX_BLOCK_WEIGHT
      [] chain_type = "Floonet" -> MAX_BLOCK_WEIGHT
      [] chain_type = "Mainnet" -> MAX_BLOCK_WEIGHT

\* max_tx_weight that takes off the coinbase output weight only.
max_tx_weight_output_only(chain_type) ==
    saturating_sub(max_block_weight(chain_type), BLOCK_OUTPUT_WEIGHT)

max_tx_weight(chain_type) ==
    LET coinbase_weight == BLOCK_OUTPUT_WEIGHT + BLOCK_KERNEL_WEIGHT
    IN  saturating_sub(max_block_weight(chain_type), coinbase_weight)

cut_through_horizon(chain_type) ==
    CASE chain_type \in {"AutomatedTesting", "PerfTesting"} -> AUTOMATED_TESTING_CUT_THROUGH_HORIZON
      [] chain_type = "UserTesting" -> USER_TESTING_CUT_THROUGH_HORIZON
      [] OTHER -> CUT_THROUGH_HORIZON

state_sync_threshold(chain_type) ==
    CASE chain_type \in {"AutomatedTesting", "PerfTesting"} -> TESTING_STATE_SYNC_THRESHOLD
      [] chain_type = "UserTesting" -> TESTING_STATE_SYNC_THRESHOLD
      [] OTHER -> STATE_SYNC_THRESHOLD

txhashset_archive_interval(chain_type) ==
    CASE chain_type \in {"AutomatedTesting", "PerfTesting"} -> TESTING_TXHASHSET_ARCHIVE_INTERVAL
      [] chain_type = "UserTesting" -> TESTING_TXHASHSET_ARCHIVE_INTERVAL
      [] OTHER -> TXHASHSET_ARCHIVE_INTERVAL

\* ---- create_pow_context ----

\* pow::new_cuckatoo_ctx and pow::new_cuckarood_ctx: the context built, named
\* by its backend, with the parameters it was built from.
new_cuckatoo_ctx(edge_bits, proof_size, max_sols) ==
    [backend |-> "cuckatoo", edge_bits |-> edge_bits, proof_size |-> proof_size,
     max_sols |-> max_sols]

new_cuckarood_ctx(edge_bits, proof_size) ==
    [backend |-> "cuckarood", edge_bits |-> edge_bits, proof_size |-> proof_size,
     max_sols |-> 0]

create_pow_context_from_29(chain_type, height, edge_bits, proof_size, max_sols) ==
    CASE chain_type = "Mainnet" /\ edge_bits >= 29 ->
             new_cuckatoo_ctx(edge_bits, proof_size, max_sols)
      [] chain_type = "Mainnet" -> new_cuckarood_ctx(edge_bits, proof_size)
      [] chain_type = "Floonet" /\ edge_bits >= 29 ->
             new_cuckatoo_ctx(edge_bits, proof_size, max_sols)
      [] chain_type = "Floonet" -> new_cuckarood_ctx(edge_bits, proof_size)
      [] OTHER -> new_cuckatoo_ctx(edge_bits, proof_size, max_sols)

\* match chain_type { ... } of create_pow_context; _height is not read.
create_pow_context(chain_type, height, edge_bits, proof_size, max_sols) ==
    CASE chain_type = "Mainnet" /\ edge_bits > 29 ->
             new_cuckatoo_ctx(edge_bits, proof_size, max_sols)
      [] chain_type = "Mainnet" -> new_cuckarood_ctx(edge_bits, proof_size)
      [] chain_type = "Floonet" /\ edge_bits > 29 ->
             new_cuckatoo_ctx(edge_bits, proof_size, max_sols)
      [] chain_type = "Floonet" -> new_cuckarood_ctx(edge_bits, proof_size)
      [] OTHER -> new_cuckatoo_ctx(edge_bits, proof_size, max_sols)

\* ---- SERVER_RUNNING ----

\* AtomicBool::load and AtomicBool::store with Ordering::SeqCst: one step each.
is_server_running(flag) == flag

request_server_stop_toggle(flag) == ~flag

request_server_stop(flag) == FALSE

\* ---- the calls ----

NoCall == [thread |-> None, op |-> None, arg |-> None, outcome |-> None,
           chain_type |-> None, val |-> None]

CallRecord(t, op, arg, panic, chain_type, val) ==
    [thread |-> t, op |-> op, arg |-> arg,
     outcome |-> IF panic THEN "panic" ELSE "ok",
     chain_type |-> chain_type, val |-> val]

CanCall(t) == status[t] = "running" /\ calls < MaxCalls

\* What every call does besides its own effect: a panic unwinds the thread.
Returned(t, rec) ==
    /\ calls' = calls + 1
    /\ prev' = last
    /\ last' = rec
    /\ status' = IF rec.outcome = "panic" THEN [status EXCEPT ![t] = "panicked"] ELSE status
    /\ UNCHANGED notProfileVars

\* A call that leaves the running flag alone.
FlagUntouched == UNCHANGED SERVER_RUNNING

Call_init_global_chain_type(t, new_type) ==
    /\ CanCall(t)
    /\ LET r == init_global_chain_type(GLOBAL_CHAIN_TYPE, new_type)
       IN  /\ GLOBAL_CHAIN_TYPE' = r.cell
           /\ Returned(t, CallRecord(t, "init_global_chain_type", new_type, r.panic, None, None))
    /\ UNCHANGED CHAIN_TYPE
    /\ FlagUntouched

Call_set_local_chain_type(t, new_type) ==
    /\ CanCall(t)
    /\ CHAIN_TYPE' = [CHAIN_TYPE EXCEPT ![t] = set_local_chain_type(CHAIN_TYPE[t], new_type)]
    /\ Returned(t, CallRecord(t, "set_local_chain_type", new_type, FALSE, None, None))
    /\ UNCHANGED GLOBAL_CHAIN_TYPE
    /\ FlagUntouched

Call_get_chain_type(t) ==
    /\ CanCall(t)
    /\ LET r == get_chain_type(CHAIN_TYPE[t], GLOBAL_CHAIN_TYPE)
       IN  /\ CHAIN_TYPE' = [CHAIN_TYPE EXCEPT ![t] = r.local]
           /\ Returned(t, CallRecord(t, "get_chain_type", None, r.panic, r.chain_type, r.chain_type))
    /\ UNCHANGED GLOBAL_CHAIN_TYPE
    /\ FlagUntouched

\* The body of a derived accessor, match get_chain_type() { ... }: the profile
\* is resolved as get_chain_type resolves it and arms gives each profile's value.
MatchChainType(t, op, arms) ==
    LET r == get_chain_type(CHAIN_TYPE[t], GLOBAL_CHAIN_TYPE)
    IN  /\ CHAIN_TYPE' = [CHAIN_TYPE EXCEPT ![t] = r.local]
        /\ Returned(t, CallRecord(t, op, None, r.panic, r.chain_type,
                                  IF r.panic THEN None ELSE arms[r.chain_type]))

Call_min_edge_bits(t) ==
    /\ CanCall(t)
    /\ MatchChainType(t, "min_edge_bits", [chain_type \in ChainTypes |-> min_edge_bits(chain_type)])
    /\ UNCHANGED GLOBAL_CHAIN_TYPE
    /\ FlagUntouched

Call_base_edge_bits(t) ==
    /\ CanCall(t)
    /\ MatchChainType(t, "base_edge_bits", [chain_type \in ChainTypes |-> base_edge_bits(chain_type)])
    /\ UNCHANGED GLOBAL_CHAIN_TYPE
    /\ FlagUntouched

Call_proofsize(t) ==
    /\ CanCall(t)
    /\ MatchChainType(t, "proofsize", [chain_type \in ChainTypes |-> proofsize(chain_type)])
    /\ UNCHANGED GLOBAL_CHAIN_TYPE
    /\ FlagUntouched

Call_coinbase_maturity(t) ==
    /\ CanCall(t)
    /\ MatchChainType(t, "coinbase_maturity", [chain_type \in ChainTypes |-> coinbase_maturity(chain_type)])
    /\ UNCHANGED GLOBAL_CHAIN_TYPE
    /\ FlagUntouched

Call_max_block_weight(t) ==
    /\ CanCall(t)
    /\ MatchChainType(t, "max_block_weight", [chain_type \in ChainTypes |-> max_block_weight(chain_type)])
    /\ UNCHANGED GLOBAL_CHAIN_TYPE
    /\ FlagUntouched

Call_max_tx_weight(t) ==
    /\ CanCall(t)
    /\ MatchChainType(t, "max_tx_weight", [chain_type \in ChainTypes |-> max_tx_weight(chain_type)])
    /\ UNCHANGED GLOBAL_CHAIN_TYPE
    /\ FlagUntouched

Call_cut_through_horizon(t) ==
    /\ CanCall(t)
    /\ MatchChainType(t, "cut_through_horizon", [chain_type \in ChainTypes |-> cut_through_horizon(chain_type)])
    /\ UNCHANGED GLOBAL_CHAIN_TYPE
    /\ FlagUntouched

Call_state_sync_threshold(t) ==
    /\ CanCall(t)
    /\ MatchChainType(t, "state_sync_threshold", [chain_type \in ChainTypes |-> state_sync_threshold(chain_type)])
    /\ UNCHANGED GLOBAL_CHAIN_TYPE
    /\ FlagUntouched

Call_txhashset_archive_interval(t) ==
    /\ CanCall(t)
    /\ MatchChainType(t, "txhashset_archive_interval", [chain_type \in ChainTypes |-> txhashset_archive_interval(chain_type)])
    /\ UNCHANGED GLOBAL_CHAIN_TYPE
    /\ FlagUntouched

\* The arguments create_pow_context is called with.
PowHeights == {0, 1}
PowEdgeBits == {28, 29, 30}
PowProofSizes == {PROOFSIZE}
PowMaxSols == {1}

Call_create_pow_context(t, height, edge_bits, proof_size, max_sols) ==
    /\ CanCall(t)
    /\ LET r == get_chain_type(CHAIN_TYPE[t], GLOBAL_CHAIN_TYPE)
           arg == [height |-> height, edge_bits |-> edge_bits,
                   proof_size |-> proof_size, max_sols |-> max_sols]
       IN  /\ CHAIN_TYPE' = [CHAIN_TYPE EXCEPT ![t] = r.local]
           /\ Returned(t, CallRecord(t, "create_pow_context", arg, r.panic, r.chain_type,
                   IF r.panic THEN None
                   ELSE create_pow_context(r.chain_type, height, edge_bits,
                                           proof_size, max_sols)))
    /\ UNCHANGED GLOBAL_CHAIN_TYPE
    /\ FlagUntouched

Call_is_server_running(t) ==
    /\ CanCall(t)
    /\ Returned(t, CallRecord(t, "is_server_running", None, FALSE, None,
                              is_server_running(SERVER_RUNNING)))
    /\ UNCHANGED <<GLOBAL_CHAIN_TYPE, CHAIN_TYPE, SERVER_RUNNING>>

Call_request_server_stop(t) ==
    /\ CanCall(t)
    /\ SERVER_RUNNING' = request_server_stop(SERVER_RUNNING)
    /\ Returned(t, CallRecord(t, "request_server_stop", None, FALSE, None, None))
    /\ UNCHANGED <<GLOBAL_CHAIN_TYPE, CHAIN_TYPE>>

NextProfile ==
    \/ \E t \in Threads, new_type \in ChainTypes : Call_init_global_chain_type(t, new_type)
    \/ \E t \in Threads, new_type \in ChainTypes : Call_set_local_chain_type(t, new_type)
    \/ \E t \in Threads : Call_get_chain_type(t)
    \/ \E t \in Threads : Call_min_edge_bits(t)
    \/ \E t \in Threads : Call_base_edge_bits(t)
    \/ \E t \in Threads : Call_proofsize(t)
    \/ \E t \in Threads : Call_coinbase_maturity(t)
    \/ \E t \in Threads : Call_max_block_weight(t)
    \/ \E t \in Threads : Call_max_tx_weight(t)
    \/ \E t \in Threads : Call_cut_through_horizon(t)
    \/ \E t \in Threads : Call_state_sync_threshold(t)
    \/ \E t \in Threads : Call_txhashset_archive_interval(t)

NextNode ==
    \/ \E t \in Threads, new_type \in ChainTypes : Call_init_global_chain_type(t, new_type)
    \/ \E t \in Threads, new_type \in ChainTypes : Call_set_local_chain_type(t, new_type)
    \/ \E t \in Threads, height \in PowHeights, edge_bits \in PowEdgeBits,
          proof_size \in PowProofSizes, max_sols \in PowMaxSols :
            Call_create_pow_context(t, height, edge_bits, proof_size, max_sols)
    \/ \E t \in Threads : Call_is_server_running(t)
    \/ \E t \in Threads : Call_request_server_stop(t)

(***************************************************************************)
(* PeerAddr: the wire codec and the equality (types.rs)                    *)
(***************************************************************************)

\* A PeerAddr is a record
\*   [kind, ip, port, flowinfo, scope_id, onion]
\* kind "V4":    Ip(SocketAddr::V4), ip the four octets
\* kind "V6":    Ip(SocketAddr::V6), ip the eight 16-bit segments
\* kind "Onion": Onion(String), onion the string's bytes (UTF-8)
\* and the fields a variant does not have are 0 or <<>>.
SocketAddrV4_new(octets, port) ==
    [kind |-> "V4", ip |-> octets, port |-> port, flowinfo |-> 0, scope_id |-> 0,
     onion |-> <<>>]

SocketAddrV6_new(segments, port, flowinfo, scope_id) ==
    [kind |-> "V6", ip |-> segments, port |-> port, flowinfo |-> flowinfo,
     scope_id |-> scope_id, onion |-> <<>>]

Onion(bytes) ==
    [kind |-> "Onion", ip |-> <<>>, port |-> 0, flowinfo |-> 0, scope_id |-> 0,
     onion |-> bytes]

IsIp(a) == a.kind \in {"V4", "V6"}

\* The longest onion string PeerAddr::write accepts.
MAX_ONION_LEN == 100

Repeat(b, n) == [i \in 1..n |-> b]

\* ---- std::net ----

\* SocketAddr::ip(): the IpAddr, a variant and its bits.
ip(a) == [kind |-> a.kind, bits |-> a.ip]

\* IpAddr::is_loopback: 127.0.0.0/8, or ::1.
is_loopback(ipaddr) ==
    IF ipaddr.kind = "V4"
    THEN ipaddr.bits[1] = 127
    ELSE ipaddr.bits = <<0, 0, 0, 0, 0, 0, 0, 1>>

\* SocketAddr == SocketAddr: the variant and every field of it.
SocketAddr_eq(a, b) ==
    /\ a.kind = b.kind
    /\ a.ip = b.ip
    /\ a.port = b.port
    /\ a.kind = "V6" => (a.flowinfo = b.flowinfo /\ a.scope_id = b.scope_id)

\* Ipv6Addr::to_ipv4: Some for ::a.b.c.d (IPv4-compatible) and for
\* ::ffff:a.b.c.d (IPv4-mapped), None otherwise.
to_ipv4(segments) ==
    IF /\ \A i \in 1..5 : segments[i] = 0
       /\ segments[6] \in {0, 65535}
    THEN [some |-> TRUE, octets |-> <<segments[7] \div 256, segments[7] % 256,
                                      segments[8] \div 256, segments[8] % 256>>]
    ELSE [some |-> FALSE, octets |-> <<>>]

\* String::from_utf8: whether the bytes from position i on are well-formed UTF-8.
\* A run of ASCII bytes is passed over in one step, up to the next byte that
\* opens a multi-byte character.
RECURSIVE Utf8ValidFrom(_, _)
Utf8ValidFrom(s, from) ==
    LET n == Len(s)
        Cont(k) == k <= n /\ s[k] >= 128 /\ s[k] <= 191
        In(k, lo, hi) == k <= n /\ s[k] >= lo /\ s[k] <= hi
        nonAscii == {k \in from..n : s[k] > 127}
        i == CHOOSE k \in nonAscii : \A m \in nonAscii : k <= m
        b == s[i]
    IN  IF nonAscii = {} THEN TRUE
        ELSE IF b >= 194 /\ b <= 223 THEN Cont(i + 1) /\ Utf8ValidFrom(s, i + 2)
        ELSE IF b = 224 THEN In(i + 1, 160, 191) /\ Cont(i + 2) /\ Utf8ValidFrom(s, i + 3)
        ELSE IF b = 237 THEN In(i + 1, 128, 159) /\ Cont(i + 2) /\ Utf8ValidFrom(s, i + 3)
        ELSE IF b >= 225 /\ b <= 239 THEN Cont(i + 1) /\ Cont(i + 2) /\ Utf8ValidFrom(s, i + 3)
        ELSE IF b = 240
             THEN In(i + 1, 144, 191) /\ Cont(i + 2) /\ Cont(i + 3) /\ Utf8ValidFrom(s, i + 4)
        ELSE IF b >= 241 /\ b <= 243
             THEN Cont(i + 1) /\ Cont(i + 2) /\ Cont(i + 3) /\ Utf8ValidFrom(s, i + 4)
        ELSE IF b = 244
             THEN In(i + 1, 128, 143) /\ Cont(i + 2) /\ Cont(i + 3) /\ Utf8ValidFrom(s, i + 4)
        ELSE FALSE

from_utf8(bytes) ==
    IF Utf8ValidFrom(bytes, 1)
    THEN [ok |-> TRUE, string |-> bytes]
    ELSE [ok |-> FALSE, string |-> <<>>]

\* ---- core::ser, the binary Writer and Reader: big-endian, a byte string is ----
\* ---- its length as a u64 and then its bytes                              ----
write_u8(b) == <<b>>
write_u16(v) == <<v \div 256, v % 256>>
write_u64(v) ==
    <<0, 0, 0, 0, (v \div 16777216) % 256, (v \div 65536) % 256, (v \div 256) % 256, v % 256>>
write_fixed_bytes(bytes) == bytes
write_bytes(bytes) == write_u64(Len(bytes)) \o write_fixed_bytes(bytes)

\* A read returns [done, err, val, rest]: rest is what of the stream is left.
ReadErr(stream) == [done |-> TRUE, err |-> TRUE, val |-> None, rest |-> stream]

read_fixed_bytes(stream, n) ==
    IF Len(stream) < n THEN ReadErr(stream)
    ELSE [done |-> TRUE, err |-> FALSE, val |-> SubSeq(stream, 1, n),
          rest |-> SubSeq(stream, n + 1, Len(stream))]

read_u8(stream) ==
    LET r == read_fixed_bytes(stream, 1)
    IN  IF r.err THEN r ELSE [r EXCEPT !.val = r.val[1]]

read_u16(stream) ==
    LET r == read_fixed_bytes(stream, 2)
    IN  IF r.err THEN r ELSE [r EXCEPT !.val = r.val[1] * 256 + r.val[2]]

\* A length of 2^31 or more is not a length of a stream of this model.
read_u64(stream) ==
    LET r == read_fixed_bytes(stream, 8)
    IN  IF r.err THEN r
        ELSE IF \E i \in 1..4 : r.val[i] # 0 \/ r.val[5] >= 128 THEN ReadErr(stream)
        ELSE [r EXCEPT !.val = ((r.val[5] * 256 + r.val[6]) * 256 + r.val[7]) * 256 + r.val[8]]

read_bytes_len_prefix(stream) ==
    LET len == read_u64(stream)
    IN  IF len.err THEN ReadErr(stream)
        ELSE LET r == read_fixed_bytes(len.rest, len.val)
             IN  IF r.err THEN ReadErr(stream) ELSE r

\* ---- impl Writeable for PeerAddr ----

RECURSIVE write_segments(_, _)
write_segments(segments, i) ==
    IF i > Len(segments) THEN <<>>
    ELSE write_u16(segments[i]) \o write_segments(segments, i + 1)

\* A write returns [done, err, bytes]: err is None for Ok(()).
WriteOk(bytes) == [done |-> TRUE, err |-> None, bytes |-> bytes]

WriteErr(e) == [done |-> TRUE, err |-> e, bytes |-> <<>>]

NotCalled == [done |-> FALSE]

\* PeerAddr::write that rejects an onion string of MAX_ONION_LEN bytes too.
PeerAddr_write_off_by_one(self) ==
    CASE self.kind = "V4" ->
            WriteOk(write_u8(0) \o write_fixed_bytes(self.ip) \o write_u16(self.port))
      [] self.kind = "V6" ->
            WriteOk(write_u8(1) \o write_segments(self.ip, 1) \o write_u16(self.port))
      [] self.kind = "Onion" ->
            IF Len(self.onion) >= MAX_ONION_LEN
            THEN WriteErr("TooLargeWriteErr")
            ELSE WriteOk(write_u8(2) \o write_bytes(self.onion))

\* PeerAddr::write: the Result and the bytes the writer received.
PeerAddr_write(self) ==
    CASE self.kind = "V4" ->
            WriteOk(write_u8(0) \o write_fixed_bytes(self.ip) \o write_u16(self.port))
      [] self.kind = "V6" ->
            WriteOk(write_u8(1) \o write_segments(self.ip, 1) \o write_u16(self.port))
      [] self.kind = "Onion" ->
            IF Len(self.onion) > MAX_ONION_LEN
            THEN WriteErr("TooLargeWriteErr")
            ELSE WriteOk(write_u8(2) \o write_bytes(self.onion))

\* ---- impl Readable for PeerAddr ----

\* try_iter_map_vec!(0..8, |_| reader.read_u16())
RECURSIVE read_segments(_, _)
read_segments(stream, k) ==
    IF k = 0 THEN [done |-> TRUE, err |-> FALSE, val |-> <<>>, rest |-> stream]
    ELSE LET seg == read_u16(stream)
         IN  IF seg.err THEN ReadErr(stream)
             ELSE LET more == read_segments(seg.rest, k - 1)
                  IN  IF more.err THEN ReadErr(stream)
                      ELSE [more EXCEPT !.val = <<seg.val>> \o more.val]

\* PeerAddr::read that returns the error of String::from_utf8.
PeerAddr_read_utf8_error(stream) ==
    LET v4_or_v6 == read_u8(stream)
    IN  IF v4_or_v6.err THEN ReadErr(stream)
        ELSE IF v4_or_v6.val = 0
        THEN LET octets == read_fixed_bytes(v4_or_v6.rest, 4)
                 port == read_u16(octets.rest)
             IN  IF octets.err \/ port.err THEN ReadErr(stream)
                 ELSE [port EXCEPT !.val = SocketAddrV4_new(octets.val, port.val)]
        ELSE IF v4_or_v6.val = 1
        THEN LET segs == read_segments(v4_or_v6.rest, 8)
                 port == read_u16(segs.rest)
             IN  IF segs.err \/ port.err THEN ReadErr(stream)
                 ELSE IF to_ipv4(segs.val).some
                      THEN [port EXCEPT !.val = SocketAddrV4_new(to_ipv4(segs.val).octets, port.val)]
                      ELSE [port EXCEPT !.val = SocketAddrV6_new(segs.val, port.val, 0, 0)]
        ELSE LET oa == read_bytes_len_prefix(v4_or_v6.rest)
             IN  IF oa.err \/ ~from_utf8(oa.val).ok THEN ReadErr(stream)
                 ELSE [oa EXCEPT !.val = Onion(from_utf8(oa.val).string)]

\* PeerAddr::read: [err, val, rest], val the PeerAddr.
PeerAddr_read(stream) ==
    LET v4_or_v6 == read_u8(stream)
    IN  IF v4_or_v6.err THEN ReadErr(stream)
        ELSE IF v4_or_v6.val = 0
        THEN LET octets == read_fixed_bytes(v4_or_v6.rest, 4)
                 port == read_u16(octets.rest)
             IN  IF octets.err \/ port.err THEN ReadErr(stream)
                 ELSE [port EXCEPT !.val = SocketAddrV4_new(octets.val, port.val)]
        ELSE IF v4_or_v6.val = 1
        THEN LET segs == read_segments(v4_or_v6.rest, 8)
                 port == read_u16(segs.rest)
             IN  IF segs.err \/ port.err THEN ReadErr(stream)
                 ELSE IF to_ipv4(segs.val).some
                      THEN [port EXCEPT !.val = SocketAddrV4_new(to_ipv4(segs.val).octets, port.val)]
                      ELSE [port EXCEPT !.val = SocketAddrV6_new(segs.val, port.val, 0, 0)]
        ELSE LET oa == read_bytes_len_prefix(v4_or_v6.rest)
             IN  IF oa.err THEN ReadErr(stream)
                 ELSE [oa EXCEPT !.val = Onion(IF from_utf8(oa.val).ok
                                               THEN from_utf8(oa.val).string
                                               ELSE <<>>)]

\* ---- impl PartialEq for PeerAddr ----

\* PeerAddr::eq that ignores the port of a loopback address too.
PeerAddr_eq_ip_only(self, other) ==
    IF IsIp(self)
    THEN IsIp(other) /\ ip(self) = ip(other)
    ELSE other.kind = "Onion" /\ self.onion = other.onion

PeerAddr_eq(self, other) ==
    IF IsIp(self)
    THEN IF IsIp(other)
         THEN IF is_loopback(ip(self))
              THEN SocketAddr_eq(self, other)
              ELSE ip(self) = ip(other)
         ELSE FALSE
    ELSE IF other.kind = "Onion" THEN self.onion = other.onion ELSE FALSE

\* ---- impl Hash for PeerAddr ----

\* What a hash feeds the hasher: the type hashed and its fields, the fields the
\* type does not have being 0 or <<>>.
HashData(type, host, port, flowinfo, scope_id, str) ==
    [type |-> type, host |-> host, port |-> port, flowinfo |-> flowinfo,
     scope_id |-> scope_id, str |-> str]

\* impl Hash for SocketAddr: V4 feeds ip and port, V6 ip, port, flowinfo, scope_id.
SocketAddr_hash(a) ==
    IF a.kind = "V4"
    THEN HashData("SocketAddrV4", a.ip, a.port, 0, 0, <<>>)
    ELSE HashData("SocketAddrV6", a.ip, a.port, a.flowinfo, a.scope_id, <<>>)

\* impl Hash for IpAddr
IpAddr_hash(ipaddr) ==
    HashData(IF ipaddr.kind = "V4" THEN "Ipv4Addr" ELSE "Ipv6Addr", ipaddr.bits, 0, 0, 0, <<>>)

\* PeerAddr::hash that feeds the whole SocketAddr for every Ip address.
PeerAddr_hash_with_port(self) ==
    IF IsIp(self)
    THEN SocketAddr_hash(self)
    ELSE HashData("String", <<>>, 0, 0, 0, self.onion)

PeerAddr_hash(self) ==
    IF IsIp(self)
    THEN IF is_loopback(ip(self))
         THEN SocketAddr_hash(self)
         ELSE IpAddr_hash(ip(self))
    ELSE HashData("String", <<>>, 0, 0, 0, self.onion)

\* ---- PeerAddr::as_key ----

\* Display of an unsigned integer: its decimal digits, as characters.
RECURSIVE fmt_decimal(_)
fmt_decimal(n) ==
    IF n < 10 THEN <<48 + n>> ELSE Append(fmt_decimal(n \div 10), 48 + (n % 10))

\* {:x} of a u16: lower-case hexadecimal digits, no leading zero.
HexDigit(d) == IF d < 10 THEN 48 + d ELSE 87 + d

RECURSIVE fmt_hex(_)
fmt_hex(n) ==
    IF n < 16 THEN <<HexDigit(n)>> ELSE Append(fmt_hex(n \div 16), HexDigit(n % 16))

\* Display for Ipv4Addr: a.b.c.d
fmt_Ipv4Addr(octets) ==
    fmt_decimal(octets[1]) \o <<46>> \o fmt_decimal(octets[2]) \o <<46>>
        \o fmt_decimal(octets[3]) \o <<46>> \o fmt_decimal(octets[4])

\* The segments from..to in hexadecimal, colons between them.
RECURSIVE fmt_subslice(_, _, _)
fmt_subslice(segments, from, to) ==
    IF from > to THEN <<>>
    ELSE IF from = to THEN fmt_hex(segments[from])
    ELSE fmt_hex(segments[from]) \o <<58>> \o fmt_subslice(segments, from + 1, to)

\* Display for Ipv6Addr: ::ffff:a.b.c.d for an IPv4-mapped address, else the
\* segments with the first of the longest runs of two or more zero segments
\* written as "::".
fmt_Ipv6Addr(segments) ==
    IF (\A i \in 1..5 : segments[i] = 0) /\ segments[6] = 65535
    THEN <<58, 58, 102, 102, 102, 102, 58>>
             \o fmt_Ipv4Addr(<<segments[7] \div 256, segments[7] % 256,
                               segments[8] \div 256, segments[8] % 256>>)
    ELSE LET runs == {r \in (1..8) \X (1..8) :
                         /\ r[1] + r[2] - 1 <= 8
                         /\ \A i \in r[1]..(r[1] + r[2] - 1) : segments[i] = 0}
             longest == CHOOSE r \in runs :
                            \A q \in runs : q[2] < r[2] \/ (q[2] = r[2] /\ q[1] >= r[1])
         IN  IF runs # {} /\ longest[2] > 1
             THEN fmt_subslice(segments, 1, longest[1] - 1) \o <<58, 58>>
                      \o fmt_subslice(segments, longest[1] + longest[2], 8)
             ELSE fmt_subslice(segments, 1, 8)

\* Display for IpAddr
fmt_IpAddr(ipaddr) ==
    IF ipaddr.kind = "V4" THEN fmt_Ipv4Addr(ipaddr.bits) ELSE fmt_Ipv6Addr(ipaddr.bits)

PeerAddr_as_key(self) ==
    IF IsIp(self)
    THEN IF is_loopback(ip(self))
         THEN fmt_IpAddr(ip(self)) \o <<58>> \o fmt_decimal(self.port)
         ELSE fmt_IpAddr(ip(self))
    ELSE self.onion

\* ---- the addresses the model writes, reads and compares ----

V4Hosts == {<<127, 0, 0, 1>>, <<127, 0, 0, 2>>, <<8, 8, 8, 8>>, <<0, 0, 0, 1>>,
            <<255, 255, 255, 255>>}

V6Hosts == {<<0, 0, 0, 0, 0, 0, 0, 1>>,               \* ::1
            <<0, 0, 0, 0, 0, 0, 0, 0>>,               \* ::
            <<0, 0, 0, 0, 0, 65535, 32512, 1>>,       \* ::ffff:127.0.0.1
            <<0, 0, 0, 0, 0, 65535, 2056, 2056>>,     \* ::ffff:8.8.8.8
            <<0, 0, 0, 0, 0, 0, 32512, 1>>,           \* ::127.0.0.1
            <<8193, 3512, 0, 0, 0, 0, 0, 1>>,         \* 2001:db8::1
            <<0, 0, 0, 0, 0, 0, 1, 13332>>,           \* ::1:3414
            <<65535, 65535, 65535, 65535, 65535, 65535, 65535, 65535>>}

Ports == {0, 3414, 9999, 65535}

V6Extras == {0, 1}

OnionStrings == {<<>>,
                 <<97, 98, 99, 46, 111, 110, 105, 111, 110>>,   \* "abc.onion"
                 <<97, 98, 99>>,                                \* "abc"
                 <<56, 46, 56, 46, 56, 46, 56>>,                \* "8.8.8.8"
                 <<195, 169, 226, 130, 172, 240, 159, 152, 128>>, \* two-, three-, four-byte characters
                 Repeat(97, MAX_ONION_LEN - 1),
                 Repeat(97, MAX_ONION_LEN),
                 Repeat(97, MAX_ONION_LEN + 1)}

PeerAddrs ==
    {SocketAddrV4_new(h, p) : h \in V4Hosts, p \in Ports}
    \cup {SocketAddrV6_new(h, p, f, s) : h \in V6Hosts, p \in {3414, 9999},
                                         f \in V6Extras, s \in V6Extras}
    \cup {Onion(s) : s \in OnionStrings}

Call_PeerAddr_write ==
    /\ ~write_result.done
    /\ write_result' = PeerAddr_write(addr_self)
    /\ UNCHANGED <<addr_self, addr_other, read_result, eq_result, key_result, hash_result>>
    /\ UNCHANGED notAddrVars

\* The bytes written are read back.
Call_PeerAddr_read ==
    /\ write_result.done
    /\ write_result.err = None
    /\ ~read_result.done
    /\ read_result' = PeerAddr_read(write_result.bytes)
    /\ UNCHANGED <<addr_self, addr_other, write_result, eq_result, key_result, hash_result>>
    /\ UNCHANGED notAddrVars

Call_PeerAddr_eq ==
    /\ ~eq_result.done
    /\ eq_result' = [done |-> TRUE, eq |-> PeerAddr_eq(addr_self, addr_other)]
    /\ UNCHANGED <<addr_self, addr_other, write_result, read_result, key_result, hash_result>>
    /\ UNCHANGED notAddrVars

Call_PeerAddr_as_key ==
    /\ ~key_result.done
    /\ key_result' = [done |-> TRUE, self |-> PeerAddr_as_key(addr_self),
                      other |-> PeerAddr_as_key(addr_other)]
    /\ UNCHANGED <<addr_self, addr_other, write_result, read_result, eq_result, hash_result>>
    /\ UNCHANGED notAddrVars

Call_PeerAddr_hash ==
    /\ ~hash_result.done
    /\ hash_result' = [done |-> TRUE, self |-> PeerAddr_hash(addr_self),
                       other |-> PeerAddr_hash(addr_other)]
    /\ UNCHANGED <<addr_self, addr_other, write_result, read_result, eq_result, key_result>>
    /\ UNCHANGED notAddrVars

NextAddr ==
    \/ Call_PeerAddr_write
    \/ Call_PeerAddr_read
    \/ Call_PeerAddr_eq
    \/ Call_PeerAddr_as_key
    \/ Call_PeerAddr_hash

\* ---- the byte streams a peer sends ----

\* The first byte of a message, and the strings that follow it length-prefixed,
\* each with whether it is well-formed UTF-8.
WireTags == {0, 1, 2, 3, 255}

WirePayloads ==
    {[bytes |-> <<>>, utf8 |-> TRUE],
     [bytes |-> <<97, 98, 99, 46, 111, 110, 105, 111, 110>>, utf8 |-> TRUE],
     [bytes |-> <<195, 169, 226, 130, 172>>, utf8 |-> TRUE],
     [bytes |-> <<255, 254>>, utf8 |-> FALSE],             \* no such lead byte
     [bytes |-> <<97, 195>>, utf8 |-> FALSE],              \* a character cut short
     [bytes |-> <<192, 128>>, utf8 |-> FALSE],             \* an overlong encoding
     [bytes |-> <<237, 160, 128>>, utf8 |-> FALSE],        \* a surrogate
     [bytes |-> <<128, 97>>, utf8 |-> FALSE]}              \* a continuation byte first

\* What follows the first message on the stream.
WireTails ==
    {<<>>,
     <<0, 8, 8, 8, 8, 13, 86>>,                            \* 8.8.8.8:3414
     <<2, 0, 0, 0, 0, 0, 0, 0, 3, 97, 98, 99>>,            \* Onion("abc")
     <<9>>}

\* cut: how many bytes the stream lacks at its end.
Wire(tag, payload, tail, cut) ==
    LET whole == write_u8(tag) \o write_bytes(payload.bytes) \o tail
    IN  [tag |-> tag, payload |-> payload.bytes, utf8 |-> payload.utf8, tail |-> tail,
         cut |-> cut, bytes |-> SubSeq(whole, 1, Len(whole) - cut)]

Wires ==
    {Wire(tag, payload, tail, 0) : tag \in WireTags, payload \in WirePayloads,
                                   tail \in WireTails}
    \cup {Wire(tag, payload, <<>>, 1) : tag \in WireTags, payload \in WirePayloads}

Call_PeerAddr_read_wire ==
    /\ ~wire_result.done
    /\ wire_result' = PeerAddr_read(wire.bytes)
    /\ UNCHANGED <<wire, wire_next>>
    /\ UNCHANGED notWireVars

\* The caller goes on with the next message of the stream.
Call_PeerAddr_read_next ==
    /\ wire_result.done
    /\ ~wire_result.err
    /\ ~wire_next.done
    /\ wire_next' = PeerAddr_read(wire_result.rest)
    /\ UNCHANGED <<wire, wire_result>>
    /\ UNCHANGED notWireVars

NextWire ==
    \/ Call_PeerAddr_read_wire
    \/ Call_PeerAddr_read_next

(***************************************************************************)
(* PeerInfo: the live info behind its RwLock (types.rs)                    *)
(***************************************************************************)

\* The threads that hold a clone of one PeerInfo.
PeerThreads == {"p1", "p2"}

\* The clock stops at MaxClock; heights and difficulties are 0..Max.
MaxClock == 2
MaxHeight == 1
MaxDifficulty == 1

Heights == 0..MaxHeight
Difficulties == 0..MaxDifficulty

\* PeerLiveInfo::new reads the clock three times, for first_seen, last_seen and
\* stuck_detector in that order.
PeerLiveInfo_new(difficulty, now1, now2, now3) ==
    [total_difficulty |-> difficulty, height |-> 0, first_seen |-> now1,
     last_seen |-> now2, stuck_detector |-> now3]

\* The three readings of a clock that does not go backward, within one tick.
NewReadings == {r \in (0..1) \X (0..1) \X (0..1) : r[1] <= r[2] /\ r[2] <= r[3]}

\* ---- util::RwLock ----
Unlocked == [writer |-> None, readers |-> {}]

CanWrite(l) == l.writer = None /\ l.readers = {}
CanRead(l) == l.writer = None

\* ---- PeerInfo::update, statement by statement ----

\* The first statement of update, resetting stuck_detector only on a higher difficulty.
update_stuck_detector_if_higher(live, total_difficulty, time) ==
    IF total_difficulty > live.total_difficulty
    THEN [live EXCEPT !.stuck_detector = time]
    ELSE live

\* if total_difficulty != live_info.total_difficulty { live_info.stuck_detector = Utc::now(); }
update_stuck_detector(live, total_difficulty, time) ==
    IF total_difficulty # live.total_difficulty
    THEN [live EXCEPT !.stuck_detector = time]
    ELSE live

update_height(live, height) == [live EXCEPT !.height = height]

update_total_difficulty(live, total_difficulty) ==
    [live EXCEPT !.total_difficulty = total_difficulty]

\* The last statement of update left out.
update_last_seen_skipped(live, time) == live

update_last_seen(live, time) == [live EXCEPT !.last_seen = time]

NoArgs == [height |-> 0, total_difficulty |-> 0, field |-> None]
NoRead == [field |-> None, val |-> 0]
NoPre == [live_info |-> PeerLiveInfo_new(0, 0, 0, 0), time |-> 0]

\* Utc::now() moves on.
Tick ==
    /\ now < MaxClock
    /\ now' = now + 1
    /\ UNCHANGED <<live_info, lock, peer_pc, peer_args, peer_pre, peer_got>>
    /\ UNCHANGED notPeerVars

\* update is entered: self.live_info.write() is granted.
Call_update(t, height, total_difficulty) ==
    /\ peer_pc[t] = "idle"
    /\ CanWrite(lock)
    /\ lock' = [lock EXCEPT !.writer = t]
    /\ peer_pc' = [peer_pc EXCEPT ![t] = "stuck_detector"]
    /\ peer_args' = [peer_args EXCEPT ![t] = [height |-> height,
                                               total_difficulty |-> total_difficulty,
                                               field |-> None]]
    /\ peer_pre' = [peer_pre EXCEPT ![t] = [live_info |-> live_info, time |-> now]]
    /\ peer_got' = [peer_got EXCEPT ![t] = NoRead]
    /\ UNCHANGED <<live_info, now>>
    /\ UNCHANGED notPeerVars

Update_stuck_detector(t) ==
    /\ peer_pc[t] = "stuck_detector"
    /\ live_info' = update_stuck_detector(live_info, peer_args[t].total_difficulty, now)
    /\ peer_pc' = [peer_pc EXCEPT ![t] = "height"]
    /\ UNCHANGED <<lock, now, peer_args, peer_pre, peer_got>>
    /\ UNCHANGED notPeerVars

\* The second statement of update with a write guard of its own, dropped after it.
Update_height_own_guard(t) ==
    /\ peer_pc[t] = "height"
    /\ live_info' = update_height(live_info, peer_args[t].height)
    /\ lock' = [lock EXCEPT !.writer = None]
    /\ peer_pc' = [peer_pc EXCEPT ![t] = "total_difficulty"]
    /\ UNCHANGED <<now, peer_args, peer_pre, peer_got>>
    /\ UNCHANGED notPeerVars

Update_height(t) ==
    /\ peer_pc[t] = "height"
    /\ live_info' = update_height(live_info, peer_args[t].height)
    /\ peer_pc' = [peer_pc EXCEPT ![t] = "total_difficulty"]
    /\ UNCHANGED <<lock, now, peer_args, peer_pre, peer_got>>
    /\ UNCHANGED notPeerVars

Update_total_difficulty(t) ==
    /\ peer_pc[t] = "total_difficulty"
    /\ live_info' = update_total_difficulty(live_info, peer_args[t].total_difficulty)
    /\ peer_pc' = [peer_pc EXCEPT ![t] = "last_seen"]
    /\ UNCHANGED <<lock, now, peer_args, peer_pre, peer_got>>
    /\ UNCHANGED notPeerVars

Update_last_seen(t) ==
    /\ peer_pc[t] = "last_seen"
    /\ live_info' = update_last_seen(live_info, now)
    /\ peer_pc' = [peer_pc EXCEPT ![t] = "updated"]
    /\ UNCHANGED <<lock, now, peer_args, peer_pre, peer_got>>
    /\ UNCHANGED notPeerVars

\* update returns: the write guard is dropped.
Update_return(t) ==
    /\ peer_pc[t] = "updated"
    /\ lock' = [lock EXCEPT !.writer = None]
    /\ peer_pc' = [peer_pc EXCEPT ![t] = "idle"]
    /\ peer_args' = [peer_args EXCEPT ![t] = NoArgs]
    /\ peer_pre' = [peer_pre EXCEPT ![t] = NoPre]
    /\ UNCHANGED <<live_info, now, peer_got>>
    /\ UNCHANGED notPeerVars

AccessorFields == {"total_difficulty", "height", "last_seen", "first_seen"}

\* total_difficulty(), height(), last_seen() or first_seen() is entered:
\* self.live_info.read() is granted.
Call_accessor(t, field) ==
    /\ peer_pc[t] = "idle"
    /\ CanRead(lock)
    /\ lock' = [lock EXCEPT !.readers = @ \cup {t}]
    /\ peer_pc' = [peer_pc EXCEPT ![t] = "reading"]
    /\ peer_args' = [peer_args EXCEPT ![t] = [NoArgs EXCEPT !.field = field]]
    /\ peer_got' = [peer_got EXCEPT ![t] = NoRead]
    /\ UNCHANGED <<live_info, now, peer_pre>>
    /\ UNCHANGED notPeerVars

\* The field is read and the read guard dropped.
Accessor_return(t) ==
    /\ peer_pc[t] = "reading"
    /\ peer_got' = [peer_got EXCEPT ![t] = [field |-> peer_args[t].field,
                                            val |-> live_info[peer_args[t].field]]]
    /\ lock' = [lock EXCEPT !.readers = @ \ {t}]
    /\ peer_pc' = [peer_pc EXCEPT ![t] = "idle"]
    /\ peer_args' = [peer_args EXCEPT ![t] = NoArgs]
    /\ UNCHANGED <<live_info, now, peer_pre>>
    /\ UNCHANGED notPeerVars

NextPeer ==
    \/ Tick
    \/ \E t \in PeerThreads, height \in Heights, total_difficulty \in Difficulties :
          Call_update(t, height, total_difficulty)
    \/ \E t \in PeerThreads : Update_stuck_detector(t)
    \/ \E t \in PeerThreads : Update_height(t)
    \/ \E t \in PeerThreads : Update_total_difficulty(t)
    \/ \E t \in PeerThreads : Update_last_seen(t)
    \/ \E t \in PeerThreads : Update_return(t)
    \/ \E t \in PeerThreads, field \in AccessorFields : Call_accessor(t, field)
    \/ \E t \in PeerThreads : Accessor_return(t)

(***************************************************************************)
(* PeerInfoDisplay::from(PeerInfo) beside PeerInfo::update (types.rs)      *)
(***************************************************************************)

\* The thread that converts the PeerInfo.
DisplayThread == "display"

\* The arguments the updating threads pass.
DisplayHeights == {0, 1, 2}
DisplayDifficulties == {0, 1}

\* The PeerInfoDisplay fields not read yet.
NoDisplay == [total_difficulty |-> 0, height |-> 0]

\* The (height, total_difficulty) a PeerLiveInfo holds.
StoredPair(live) == <<live.height, live.total_difficulty>>

\* The second statement of update, the pair live_info holds after it recorded.
Display_update_height(t) ==
    /\ peer_pc[t] = "height"
    /\ live_info' = update_height(live_info, peer_args[t].height)
    /\ peer_pc' = [peer_pc EXCEPT ![t] = "total_difficulty"]
    /\ stored_pairs' = stored_pairs \cup {StoredPair(live_info')}
    /\ UNCHANGED <<lock, now, peer_args, peer_pre, peer_got, display_pc, display>>
    /\ UNCHANGED notDisplayVars

\* The third statement of update, the pair live_info holds after it recorded.
Display_update_total_difficulty(t) ==
    /\ peer_pc[t] = "total_difficulty"
    /\ live_info' = update_total_difficulty(live_info, peer_args[t].total_difficulty)
    /\ peer_pc' = [peer_pc EXCEPT ![t] = "last_seen"]
    /\ stored_pairs' = stored_pairs \cup {StoredPair(live_info')}
    /\ UNCHANGED <<lock, now, peer_args, peer_pre, peer_got, display_pc, display>>
    /\ UNCHANGED notDisplayVars

\* from evaluates info.total_difficulty(): self.live_info.read() is granted.
From_total_difficulty_call ==
    /\ display_pc = "start"
    /\ CanRead(lock)
    /\ lock' = [lock EXCEPT !.readers = @ \cup {DisplayThread}]
    /\ display_pc' = "total_difficulty"
    /\ UNCHANGED <<live_info, now, peer_pc, peer_args, peer_pre, peer_got,
                   display, stored_pairs>>
    /\ UNCHANGED notDisplayVars

\* total_difficulty is read, the read guard held on until from returns.
From_total_difficulty_return_guard_kept ==
    /\ display_pc = "total_difficulty"
    /\ display' = [display EXCEPT !.total_difficulty = live_info.total_difficulty]
    /\ display_pc' = "between"
    /\ UNCHANGED <<live_info, lock, now, peer_pc, peer_args, peer_pre, peer_got,
                   stored_pairs>>
    /\ UNCHANGED notDisplayVars

\* total_difficulty is read and the read guard dropped.
From_total_difficulty_return ==
    /\ display_pc = "total_difficulty"
    /\ display' = [display EXCEPT !.total_difficulty = live_info.total_difficulty]
    /\ lock' = [lock EXCEPT !.readers = @ \ {DisplayThread}]
    /\ display_pc' = "between"
    /\ UNCHANGED <<live_info, now, peer_pc, peer_args, peer_pre, peer_got,
                   stored_pairs>>
    /\ UNCHANGED notDisplayVars

\* from evaluates info.height(): self.live_info.read() is granted.
From_height_call ==
    /\ display_pc = "between"
    /\ CanRead(lock)
    /\ lock' = [lock EXCEPT !.readers = @ \cup {DisplayThread}]
    /\ display_pc' = "height"
    /\ UNCHANGED <<live_info, now, peer_pc, peer_args, peer_pre, peer_got,
                   display, stored_pairs>>
    /\ UNCHANGED notDisplayVars

\* height is read and the read guard dropped: the PeerInfoDisplay is complete.
From_height_return ==
    /\ display_pc = "height"
    /\ display' = [display EXCEPT !.height = live_info.height]
    /\ lock' = [lock EXCEPT !.readers = @ \ {DisplayThread}]
    /\ display_pc' = "done"
    /\ UNCHANGED <<live_info, now, peer_pc, peer_args, peer_pre, peer_got,
                   stored_pairs>>
    /\ UNCHANGED notDisplayVars

NextDisplay ==
    \/ \E t \in PeerThreads, height \in DisplayHeights,
          total_difficulty \in DisplayDifficulties :
          Call_update(t, height, total_difficulty)
    \/ \E t \in PeerThreads : Update_stuck_detector(t)
    \/ \E t \in PeerThreads : Display_update_height(t)
    \/ \E t \in PeerThreads : Display_update_total_difficulty(t)
    \/ \E t \in PeerThreads : Update_last_seen(t)
    \/ \E t \in PeerThreads : Update_return(t)
    \/ From_total_difficulty_call
    \/ From_total_difficulty_return
    \/ From_height_call
    \/ From_height_return

(***************************************************************************)
(* difficulty_data_to_vector (global.rs)                                   *)
(***************************************************************************)

\* consensus::HeaderInfo, its timestamp and difficulty.
HeaderInfo(timestamp, difficulty) == [timestamp |-> timestamp, difficulty |-> difficulty]

\* HeaderInfo::from_ts_diff
from_ts_diff(timestamp, difficulty) == HeaderInfo(timestamp, difficulty)

\* Iterator::take(k).collect()
Take(s, k) == SubSeq(s, 1, IF k < Len(s) THEN k ELSE Len(s))

\* The vector returned as it was filled, newest first.
Reverse_skipped(s) == s

\* Vec::reverse
Reverse(s) == [i \in 1..Len(s) |-> s[Len(s) + 1 - i]]

\* last_n[0].timestamp - last_n[1].timestamp when n > 1, else BLOCK_TIME_SEC.
\* The subtraction is a plain u64 one: when the first timestamp is the smaller
\* it panics in a build with overflow checks and wraps in a build without, and
\* then value, which is negative, stands for 2^64 + value.
last_ts_delta(last_n, checked) ==
    IF Len(last_n) > 1
    THEN LET a == last_n[1].timestamp
             b == last_n[2].timestamp
         IN  IF a >= b THEN [panic |-> FALSE, wrapped |-> FALSE, value |-> a - b]
             ELSE IF checked THEN [panic |-> TRUE, wrapped |-> FALSE, value |-> 0]
             ELSE [panic |-> FALSE, wrapped |-> TRUE, value |-> a - b]
    ELSE [panic |-> FALSE, wrapped |-> FALSE, value |-> BLOCK_TIME_SEC]

\* The next synthesized timestamp, by a plain subtraction.
next_last_ts_unclamped(last_ts, delta) == last_ts - delta.value

\* last_ts.saturating_sub(last_ts_delta). A wrapped delta is above 2^63 and
\* every timestamp of this model is below it, so the difference saturates.
next_last_ts(last_ts, delta) ==
    IF delta.wrapped THEN 0 ELSE saturating_sub(last_ts, delta.value)

\* for _ in n..needed_block_count { last_ts = ...; last_n.push(...) }
RECURSIVE fill(_, _, _, _, _)
fill(last_n, last_ts, delta, last_diff, count) ==
    IF count = 0 THEN last_n
    ELSE LET ts == next_last_ts(last_ts, delta)
         IN  fill(Append(last_n, from_ts_diff(ts, last_diff)), ts, delta, last_diff, count - 1)

WindowPanic(why) == [done |-> TRUE, panic |-> why, vec |-> <<>>]

difficulty_data_to_vector(cursor, checked) ==
    LET needed_block_count == DIFFICULTY_ADJUST_WINDOW + 1
        last_n == Take(cursor, needed_block_count)
        n == Len(last_n)
    IN  IF needed_block_count > n
        THEN LET delta == last_ts_delta(last_n, checked)
             IN  IF delta.panic THEN WindowPanic("attempt to subtract with overflow")
                 ELSE IF n = 0 THEN WindowPanic("index out of bounds")
                 ELSE [done |-> TRUE, panic |-> None,
                       vec |-> Reverse(fill(last_n, last_n[n].timestamp, delta,
                                            last_n[1].difficulty, needed_block_count - n))]
        ELSE [done |-> TRUE, panic |-> None, vec |-> Reverse(last_n)]

\* ---- the header histories the model pads, newest first ----

\* n samples from timestamp t0 back in steps of step (not below 0), the newest
\* one late by more; a negative step makes the timestamps grow toward the older
\* samples. The difficulties grow by dstep toward the older samples.
History(n, t0, step, late, d0, dstep) ==
    [i \in 1..n |->
        HeaderInfo(IF i = 1 THEN t0 + late
                   ELSE IF t0 - (i - 1) * step >= 0 THEN t0 - (i - 1) * step ELSE 0,
                   d0 + (i - 1) * dstep)]

HistoryLengths == {0, 1, 2, 3, DIFFICULTY_ADJUST_WINDOW, DIFFICULTY_ADJUST_WINDOW + 1,
                   DIFFICULTY_ADJUST_WINDOW + 2}

Histories ==
    {History(n, t0, step, late, d0, dstep) :
        n \in HistoryLengths, t0 \in {0, 100, 3600, 3700, 100000},
        step \in {-45, 0, 60, 75}, late \in {0, 10}, d0 \in {1, 1000}, dstep \in {0, 1}}

Call_difficulty_data_to_vector ==
    /\ ~window_result.done
    /\ window_result' = difficulty_data_to_vector(window_cursor, overflow_checks)
    /\ UNCHANGED <<window_cursor, overflow_checks>>
    /\ UNCHANGED notDifficultyVars

NextDifficulty == Call_difficulty_data_to_vector

(***************************************************************************)
(* The specifications                                                      *)
(***************************************************************************)

\* Nothing is set, no thread has called.
InitProfile ==
    /\ GLOBAL_CHAIN_TYPE = OneTime_new
    /\ CHAIN_TYPE = [t \in Threads |-> None]
    /\ status = [t \in Threads |-> "running"]
    /\ calls = 0
    /\ last = NoCall
    /\ prev = NoCall
    /\ SERVER_RUNNING = TRUE
    /\ addr_self = None
    /\ addr_other = None
    /\ write_result = None
    /\ read_result = None
    /\ eq_result = None
    /\ key_result = None
    /\ hash_result = None
    /\ wire = None
    /\ wire_result = None
    /\ wire_next = None
    /\ live_info = None
    /\ lock = None
    /\ now = 0
    /\ peer_pc = None
    /\ peer_args = None
    /\ peer_pre = None
    /\ peer_got = None
    /\ display_pc = None
    /\ display = None
    /\ stored_pairs = None
    /\ window_cursor = None
    /\ overflow_checks = None
    /\ window_result = None

SpecProfile == InitProfile /\ [][NextProfile]_vars

SpecNode == InitProfile /\ [][NextNode]_vars

\* Two addresses, nothing written, read or compared.
InitAddr ==
    /\ addr_self \in PeerAddrs
    /\ addr_other \in PeerAddrs
    /\ write_result = NotCalled
    /\ read_result = NotCalled
    /\ eq_result = NotCalled
    /\ key_result = NotCalled
    /\ hash_result = NotCalled
    /\ wire = None
    /\ wire_result = None
    /\ wire_next = None
    /\ GLOBAL_CHAIN_TYPE = None
    /\ CHAIN_TYPE = None
    /\ status = None
    /\ calls = 0
    /\ last = None
    /\ prev = None
    /\ SERVER_RUNNING = TRUE
    /\ live_info = None
    /\ lock = None
    /\ now = 0
    /\ peer_pc = None
    /\ peer_args = None
    /\ peer_pre = None
    /\ peer_got = None
    /\ display_pc = None
    /\ display = None
    /\ stored_pairs = None
    /\ window_cursor = None
    /\ overflow_checks = None
    /\ window_result = None

SpecAddr == InitAddr /\ [][NextAddr]_vars

\* A stream from a peer, nothing read.
InitWire ==
    /\ GLOBAL_CHAIN_TYPE = None
    /\ CHAIN_TYPE = None
    /\ status = None
    /\ calls = 0
    /\ last = None
    /\ prev = None
    /\ SERVER_RUNNING = TRUE
    /\ addr_self = None
    /\ addr_other = None
    /\ write_result = None
    /\ read_result = None
    /\ eq_result = None
    /\ key_result = None
    /\ hash_result = None
    /\ wire \in Wires
    /\ wire_result = NotCalled
    /\ wire_next = NotCalled
    /\ live_info = None
    /\ lock = None
    /\ now = 0
    /\ peer_pc = None
    /\ peer_args = None
    /\ peer_pre = None
    /\ peer_got = None
    /\ display_pc = None
    /\ display = None
    /\ stored_pairs = None
    /\ window_cursor = None
    /\ overflow_checks = None
    /\ window_result = None

SpecWire == InitWire /\ [][NextWire]_vars

\* A PeerInfo whose live info PeerLiveInfo::new has just made; no thread is in a call.
InitPeer ==
    /\ \E difficulty \in Difficulties, r \in NewReadings :
          /\ live_info = PeerLiveInfo_new(difficulty, r[1], r[2], r[3])
          /\ now = r[3]
    /\ lock = Unlocked
    /\ peer_pc = [t \in PeerThreads |-> "idle"]
    /\ peer_args = [t \in PeerThreads |-> NoArgs]
    /\ peer_pre = [t \in PeerThreads |-> NoPre]
    /\ peer_got = [t \in PeerThreads |-> NoRead]
    /\ display_pc = None
    /\ display = None
    /\ stored_pairs = None
    /\ GLOBAL_CHAIN_TYPE = None
    /\ CHAIN_TYPE = None
    /\ status = None
    /\ calls = 0
    /\ last = None
    /\ prev = None
    /\ SERVER_RUNNING = TRUE
    /\ addr_self = None
    /\ addr_other = None
    /\ write_result = None
    /\ read_result = None
    /\ eq_result = None
    /\ key_result = None
    /\ hash_result = None
    /\ wire = None
    /\ wire_result = None
    /\ wire_next = None
    /\ window_cursor = None
    /\ overflow_checks = None
    /\ window_result = None

SpecPeer == InitPeer /\ [][NextPeer]_vars

\* A PeerInfo whose live info PeerLiveInfo::new has just made; no thread is in
\* update and from has not read yet.
InitDisplay ==
    /\ \E difficulty \in DisplayDifficulties :
          /\ live_info = PeerLiveInfo_new(difficulty, 0, 0, 0)
          /\ stored_pairs = {<<0, difficulty>>}
    /\ now = 0
    /\ lock = Unlocked
    /\ peer_pc = [t \in PeerThreads |-> "idle"]
    /\ peer_args = [t \in PeerThreads |-> NoArgs]
    /\ peer_pre = [t \in PeerThreads |-> NoPre]
    /\ peer_got = [t \in PeerThreads |-> NoRead]
    /\ display_pc = "start"
    /\ display = NoDisplay
    /\ GLOBAL_CHAIN_TYPE = None
    /\ CHAIN_TYPE = None
    /\ status = None
    /\ calls = 0
    /\ last = None
    /\ prev = None
    /\ SERVER_RUNNING = TRUE
    /\ addr_self = None
    /\ addr_other = None
    /\ write_result = None
    /\ read_result = None
    /\ eq_result = None
    /\ key_result = None
    /\ hash_result = None
    /\ wire = None
    /\ wire_result = None
    /\ wire_next = None
    /\ window_cursor = None
    /\ overflow_checks = None
    /\ window_result = None

SpecDisplay == InitDisplay /\ [][NextDisplay]_vars

\* A header history and a build; the function has not been called.
InitDifficulty ==
    /\ window_cursor \in Histories
    /\ overflow_checks \in BOOLEAN
    /\ window_result = NotCalled
    /\ GLOBAL_CHAIN_TYPE = None
    /\ CHAIN_TYPE = None
    /\ status = None
    /\ calls = 0
    /\ last = None
    /\ prev = None
    /\ SERVER_RUNNING = TRUE
    /\ addr_self = None
    /\ addr_other = None
    /\ write_result = None
    /\ read_result = None
    /\ eq_result = None
    /\ key_result = None
    /\ hash_result = None
    /\ wire = None
    /\ wire_result = None
    /\ wire_next = None
    /\ live_info = None
    /\ lock = None
    /\ now = 0
    /\ peer_pc = None
    /\ peer_args = None
    /\ peer_pre = None
    /\ peer_got = None
    /\ display_pc = None
    /\ display = None
    /\ stored_pairs = None

SpecDifficulty == InitDifficulty /\ [][NextDifficulty]_vars

(***************************************************************************)
(* The claims                                                              *)
(***************************************************************************)

\* A call was made in this step, and last' is its record.
Called(op) == calls' # calls /\ last'.op = op

\* C1: the process-wide chain type is write-once. Whatever init_global_chain_type,
\* set_local_chain_type and get_chain_type calls the threads make, the process-wide
\* value never changes once it is set, and an init_global_chain_type call made while
\* it is set to a different value panics (the calling thread unwinds; no error value
\* is returned).
C1_GlobalWriteOnce ==
    [][ /\ GLOBAL_CHAIN_TYPE # None => GLOBAL_CHAIN_TYPE' = GLOBAL_CHAIN_TYPE
        /\ ( /\ Called("init_global_chain_type")
             /\ GLOBAL_CHAIN_TYPE # None
             /\ GLOBAL_CHAIN_TYPE # last'.arg )
           => /\ last'.outcome = "panic"
              /\ status'[last'.thread] = "panicked" ]_vars

\* A second init with a different value has panicked, after another thread's read
\* of the value written first.
C1_Witness ==
    /\ last.op = "init_global_chain_type"
    /\ last.outcome = "panic"
    /\ GLOBAL_CHAIN_TYPE # None
    /\ GLOBAL_CHAIN_TYPE # last.arg
    /\ prev.op = "get_chain_type"
    /\ prev.val = GLOBAL_CHAIN_TYPE

\* C2: get_chain_type resolves in a fixed order: the caller's thread-local value
\* if it is set (also when it was set after the process-wide init), otherwise the
\* process-wide value if it is initialized, otherwise a panic; no default is
\* returned when neither is set.
C2_ResolutionOrder ==
    [][ Called("get_chain_type") =>
          LET local == CHAIN_TYPE[last'.thread]
          IN  IF local # None
              THEN last'.outcome = "ok" /\ last'.val = local
              ELSE IF GLOBAL_CHAIN_TYPE # None
              THEN last'.outcome = "ok" /\ last'.val = GLOBAL_CHAIN_TYPE
              ELSE last'.outcome = "panic" /\ last'.val = None ]_vars

\* A thread-local override set while the process-wide value is initialized wins.
C2_Witness ==
    /\ GLOBAL_CHAIN_TYPE # None
    /\ prev.op = "set_local_chain_type"
    /\ last.op = "get_chain_type"
    /\ last.thread = prev.thread
    /\ last.outcome = "ok"
    /\ last.val = prev.arg
    /\ last.val # GLOBAL_CHAIN_TYPE

DerivedAccessors ==
    {"min_edge_bits", "base_edge_bits", "proofsize", "coinbase_maturity",
     "max_block_weight", "max_tx_weight", "cut_through_horizon",
     "state_sync_threshold", "txhashset_archive_interval"}

WeightAccessors == {"max_block_weight", "max_tx_weight"}

\* The three tiers of the claim.
Tier(chain_type) ==
    CASE chain_type \in {"AutomatedTesting", "PerfTesting"} -> "automated"
      [] chain_type = "UserTesting" -> "user"
      [] chain_type \in {"Floonet", "Mainnet"} -> "production"

\* The two tiers of the block weight.
WeightTier(chain_type) ==
    CASE chain_type \in {"AutomatedTesting", "UserTesting"} -> "testing"
      [] chain_type \in {"PerfTesting", "Floonet", "Mainnet"} -> "production"

\* Two successive calls of one accessor, both returned.
SameAccessorTwice(ops) ==
    /\ last.op \in ops
    /\ prev.op = last.op
    /\ last.outcome = "ok"
    /\ prev.outcome = "ok"

CoinbaseMaturityByTier ==
    (last.op = "coinbase_maturity" /\ last.outcome = "ok") =>
        last.val = CASE Tier(last.chain_type) = "automated" -> AUTOMATED_TESTING_COINBASE_MATURITY
                     [] Tier(last.chain_type) = "user" -> USER_TESTING_COINBASE_MATURITY
                     [] Tier(last.chain_type) = "production" -> COINBASE_MATURITY

\* C9 as stated: every one of the nine derived accessors returns the same value
\* for two chain types of one tier ({AutomatedTesting, PerfTesting}, {UserTesting},
\* {Floonet, Mainnet}), and coinbase_maturity returns the tier's constant.
C9_ThreeTierAllAccessors ==
    /\ (SameAccessorTwice(DerivedAccessors) /\ Tier(last.chain_type) = Tier(prev.chain_type))
          => last.val = prev.val
    /\ CoinbaseMaturityByTier

\* C9, amended: the seven accessors other than max_block_weight and max_tx_weight
\* return the same value for two chain types of one of the three tiers, and
\* coinbase_maturity returns the tier's constant; max_block_weight and
\* max_tx_weight return one value for {AutomatedTesting, UserTesting} and one for
\* {PerfTesting, Floonet, Mainnet}.
C9_ThreeTierDispatch ==
    /\ ( /\ SameAccessorTwice(DerivedAccessors \ WeightAccessors)
         /\ Tier(last.chain_type) = Tier(prev.chain_type) )
          => last.val = prev.val
    /\ ( /\ SameAccessorTwice(WeightAccessors)
         /\ WeightTier(last.chain_type) = WeightTier(prev.chain_type) )
          => last.val = prev.val
    /\ CoinbaseMaturityByTier

\* coinbase_maturity was read under AutomatedTesting and then under PerfTesting.
C9_Witness ==
    /\ SameAccessorTwice({"coinbase_maturity"})
    /\ prev.chain_type = "AutomatedTesting"
    /\ last.chain_type = "PerfTesting"
    /\ last.val = AUTOMATED_TESTING_COINBASE_MATURITY

\* C10: under every chain type, max_tx_weight() is max_block_weight() minus
\* (BLOCK_OUTPUT_WEIGHT + BLOCK_KERNEL_WEIGHT) when that is not negative and 0
\* otherwise; it is never negative and never above max_block_weight().
C10_MaxTxWeight ==
    ( /\ prev.op = "max_block_weight"
      /\ last.op = "max_tx_weight"
      /\ prev.outcome = "ok"
      /\ last.outcome = "ok"
      /\ prev.chain_type = last.chain_type )
    => LET difference == prev.val - (BLOCK_OUTPUT_WEIGHT + BLOCK_KERNEL_WEIGHT)
       IN  /\ last.val = IF difference >= 0 THEN difference ELSE 0
           /\ last.val >= 0
           /\ last.val <= prev.val

\* max_block_weight() and then max_tx_weight() were read under one chain type.
C10_Witness ==
    /\ prev.op = "max_block_weight"
    /\ last.op = "max_tx_weight"
    /\ prev.outcome = "ok"
    /\ last.outcome = "ok"
    /\ prev.chain_type = last.chain_type
    /\ last.chain_type = "AutomatedTesting"
    /\ last.val = TESTING_MAX_BLOCK_WEIGHT - 24

\* An IPv6 address of the form ::ffff:a.b.c.d.
IsIpv4Mapped(a) ==
    /\ a.kind = "V6"
    /\ \A i \in 1..5 : a.ip[i] = 0
    /\ a.ip[6] = 65535

\* The IPv4 form of an IPv4-mapped address; any other address is its own.
Canonical(a) ==
    IF IsIpv4Mapped(a)
    THEN SocketAddrV4_new(<<a.ip[7] \div 256, a.ip[7] % 256, a.ip[8] \div 256, a.ip[8] % 256>>,
                          a.port)
    ELSE a

\* C3: reading back what PeerAddr::write wrote succeeds and yields an address
\* equal (PeerAddr::eq) to the one written, of the same variant and port, except
\* that an IPv4-mapped IPv6 address comes back as the IPv4 variant with the same port.
C3_RoundTrip ==
    read_result.done =>
        /\ ~read_result.err
        /\ read_result.val.kind = Canonical(addr_self).kind
        /\ read_result.val.port = Canonical(addr_self).port
        /\ PeerAddr_eq(read_result.val, Canonical(addr_self))

\* C4: two loopback IP addresses are equal exactly when host and port are equal,
\* two non-loopback IP addresses exactly when the hosts are equal, an IP address
\* never equals an onion address, two onion addresses are equal exactly when
\* their strings are.
C4_EqualityByClass ==
    eq_result.done =>
        LET a == addr_self
            b == addr_other
            bothIp == IsIp(a) /\ IsIp(b)
        IN  /\ (bothIp /\ is_loopback(ip(a)) /\ is_loopback(ip(b)))
                  => (eq_result.eq <=> (ip(a) = ip(b) /\ a.port = b.port))
            /\ (bothIp /\ ~is_loopback(ip(a)) /\ ~is_loopback(ip(b)))
                  => (eq_result.eq <=> ip(a) = ip(b))
            /\ (IsIp(a) # IsIp(b)) => ~eq_result.eq
            /\ (~IsIp(a) /\ ~IsIp(b)) => (eq_result.eq <=> a.onion = b.onion)

\* C5: PeerAddr::write of an onion address returns an error, and writes nothing,
\* exactly when the string is longer than 100 bytes; otherwise it returns Ok and
\* has written the tag 2, the length as a big-endian u64 and the string's bytes.
\* Writing an IP address never returns that error.
C5_OnionSizeGuard ==
    write_result.done =>
        IF addr_self.kind = "Onion"
        THEN LET n == Len(addr_self.onion)
                 bytes == write_result.bytes
             IN  IF n > 100
                 THEN write_result.err = "TooLargeWriteErr" /\ bytes = <<>>
                 ELSE /\ write_result.err = None
                      /\ Len(bytes) = 9 + n
                      /\ bytes[1] = 2
                      /\ \A i \in 2..8 : bytes[i] = 0
                      /\ bytes[9] = n
                      /\ SubSeq(bytes, 10, 9 + n) = addr_self.onion
        ELSE write_result.err = None

\* An onion string of 101 bytes was refused and nothing was written.
C5_Witness ==
    /\ write_result.done
    /\ addr_self.kind = "Onion"
    /\ Len(addr_self.onion) = 101
    /\ write_result.err = "TooLargeWriteErr"
    /\ write_result.bytes = <<>>

\* C6: when an update(height, total_difficulty) has run its last statement,
\* height and total_difficulty are the arguments and last_seen is a time read
\* during the call; stuck_detector is what it was before the call when the
\* argument equals the total_difficulty stored before the call (whatever the
\* height), and is a time read during the call, not after last_seen, when the
\* argument differs from it, higher or lower.
C6_UpdateSemantics ==
    \A t \in PeerThreads :
        peer_pc[t] = "updated" =>
            LET pre == peer_pre[t].live_info
                args == peer_args[t]
                DuringCall(time) == peer_pre[t].time <= time /\ time <= now
            IN  /\ live_info.height = args.height
                /\ live_info.total_difficulty = args.total_difficulty
                /\ DuringCall(live_info.last_seen)
                /\ IF args.total_difficulty = pre.total_difficulty
                   THEN live_info.stuck_detector = pre.stuck_detector
                   ELSE /\ DuringCall(live_info.stuck_detector)
                        /\ live_info.stuck_detector <= live_info.last_seen

\* An update that changed the height and not the difficulty, begun after the
\* stored stuck_detector, has left stuck_detector as it was.
C6_Witness ==
    \E t \in PeerThreads :
        /\ peer_pc[t] = "updated"
        /\ peer_args[t].height # peer_pre[t].live_info.height
        /\ peer_args[t].total_difficulty = peer_pre[t].live_info.total_difficulty
        /\ peer_pre[t].live_info.stuck_detector < peer_pre[t].time
        /\ live_info.stuck_detector = peer_pre[t].live_info.stuck_detector
        /\ live_info.last_seen > live_info.stuck_detector

\* C7: difficulty_data_to_vector returns DIFFICULTY_ADJUST_WINDOW + 1 entries for
\* every input: an empty one, one shorter than the window, one of the window's
\* length, a longer one.
C7_AlwaysFullWindow ==
    window_result.done =>
        /\ window_result.panic = None
        /\ Len(window_result.vec) = DIFFICULTY_ADJUST_WINDOW + 1

\* The padded window of one real sample, as C8 states it (Clamped FALSE) and
\* amended (Clamped TRUE): the oldest-first result has DIFFICULTY_ADJUST_WINDOW + 1
\* entries, the last is the real sample, and the i-th entry back from it has the
\* sample's difficulty and the timestamp T - i * BLOCK_TIME_SEC, not below 0
\* when clamped.
SingleSamplePadding(clamped) ==
    (window_result.done /\ Len(window_cursor) = 1) =>
        LET T == window_cursor[1].timestamp
            D == window_cursor[1].difficulty
            W == DIFFICULTY_ADJUST_WINDOW
            vec == window_result.vec
            Back(i) == IF clamped /\ T - i * BLOCK_TIME_SEC < 0 THEN 0
                       ELSE T - i * BLOCK_TIME_SEC
        IN  /\ window_result.panic = None
            /\ Len(vec) = W + 1
            /\ vec[W + 1] = window_cursor[1]
            /\ \A i \in 1..W :
                  /\ vec[W + 1 - i].difficulty = D
                  /\ vec[W + 1 - i].timestamp = Back(i)

\* C8 as stated: every synthesized timestamp is exactly T - i * BLOCK_TIME_SEC.
C8_SingleSampleExact == SingleSamplePadding(FALSE)

\* C8, amended: every synthesized timestamp is T - i * BLOCK_TIME_SEC when that
\* is not negative and 0 otherwise.
C8_SingleSampleClamped == SingleSamplePadding(TRUE)

\* One sample with timestamp 100 was padded: the entry before it has timestamp
\* 40 and the older ones 0.
C8_Witness ==
    /\ window_result.done
    /\ Len(window_cursor) = 1
    /\ window_cursor[1].timestamp = 100
    /\ Len(window_result.vec) = DIFFICULTY_ADJUST_WINDOW + 1
    /\ window_result.vec[DIFFICULTY_ADJUST_WINDOW].timestamp = 40
    /\ window_result.vec[1].timestamp = 0

\* The real samples difficulty_data_to_vector kept, and the time delta the claims
\* name: newest minus second newest, the nominal block time for one sample.
KeptSamples == Take(window_cursor, DIFFICULTY_ADJUST_WINDOW + 1)

NominalDelta ==
    IF Len(KeptSamples) >= 2
    THEN KeptSamples[1].timestamp - KeptSamples[2].timestamp
    ELSE BLOCK_TIME_SEC

\* Newest first, no sample is older than the one after it.
NonIncreasing(samples) ==
    \A i \in 1..(Len(samples) - 1) : samples[i].timestamp >= samples[i + 1].timestamp

\* C15: padding content for a short history of k real samples, 1 <= k <
\* DIFFICULTY_ADJUST_WINDOW + 1. The delta is the newest timestamp minus the
\* second newest (the nominal block time for k = 1); each synthesized entry has
\* the difficulty of the oldest real sample and the timestamp of the entry after
\* it minus the delta. Stated for the histories whose timestamps do not grow
\* toward the older samples and whose oldest timestamp is large enough for no
\* subtraction to reach zero.
C15_PaddingContent ==
    LET k == Len(window_cursor)
        W == DIFFICULTY_ADJUST_WINDOW
        vec == window_result.vec
    IN  ( /\ window_result.done
          /\ k >= 1 /\ k < W + 1
          /\ NonIncreasing(window_cursor)
          /\ window_cursor[k].timestamp >= (W + 1 - k) * NominalDelta )
        => /\ window_result.panic = None
           /\ Len(vec) = W + 1
           /\ \A j \in 1..(W + 1 - k) :
                 /\ vec[j].difficulty = window_cursor[k].difficulty
                 /\ vec[j].timestamp = vec[j + 1].timestamp - NominalDelta

\* C16: the padded window is oldest-first and time-monotonic. For every
\* non-empty newest-first input whose timestamps are non-increasing, the result's
\* timestamps are non-decreasing from the first entry to the last, the real
\* samples kept are its last entries in reversed input order, and no synthesized
\* timestamp is below 0 or above the oldest real one (none has wrapped).
C16_MonotonicWindow ==
    ( /\ window_result.done
      /\ Len(window_cursor) >= 1
      /\ NonIncreasing(window_cursor) )
    => LET vec == window_result.vec
           W == DIFFICULTY_ADJUST_WINDOW
           n == Len(KeptSamples)
       IN  /\ window_result.panic = None
           /\ Len(vec) = W + 1
           /\ \A j \in 1..W : vec[j].timestamp <= vec[j + 1].timestamp
           /\ \A i \in 1..n : vec[W + 2 - i] = window_cursor[i]
           /\ \A j \in 1..(W + 1 - n) :
                 /\ vec[j].timestamp >= 0
                 /\ vec[j].timestamp <= KeptSamples[n].timestamp

\* Three samples 100, 25, 0 were padded: every synthesized timestamp is 0, the
\* samples are the last three entries, oldest first.
C16_Witness ==
    /\ window_result.done
    /\ Len(window_cursor) = 3
    /\ window_cursor[1].timestamp = 100
    /\ window_cursor[2].timestamp = 25
    /\ window_cursor[3].timestamp = 0
    /\ Len(window_result.vec) = DIFFICULTY_ADJUST_WINDOW + 1
    /\ window_result.vec[1].timestamp = 0
    /\ window_result.vec[DIFFICULTY_ADJUST_WINDOW - 1] = window_cursor[3]
    /\ window_result.vec[DIFFICULTY_ADJUST_WINDOW + 1] = window_cursor[1]

\* A thread is inside update, between taking the write guard and dropping it.
InUpdate(t) ==
    peer_pc[t] \in {"stuck_detector", "height", "total_difficulty", "last_seen", "updated"}

\* C17: updates of one peer's live info are atomic. While a thread is inside
\* update no other thread is inside update or inside a read accessor, so a
\* reader reads only while no update is partly applied; the update that returns
\* leaves exactly its own (height, total_difficulty) arguments stored; and
\* nothing changes the stored pair while no update is running, so once all
\* updates have returned the pair is the argument pair of one single call.
C17_AtomicUpdate ==
    /\ [](\A t \in PeerThreads :
            InUpdate(t) => \A u \in PeerThreads \ {t} : peer_pc[u] = "idle")
    /\ [][ /\ \A t \in PeerThreads :
                (peer_pc[t] = "updated" /\ peer_pc'[t] = "idle")
                    => /\ live_info'.height = peer_args[t].height
                       /\ live_info'.total_difficulty = peer_args[t].total_difficulty
           /\ (\A t \in PeerThreads : ~InUpdate(t) \/ peer_pc[t] = "updated")
                    => /\ live_info'.height = live_info.height
                       /\ live_info'.total_difficulty = live_info.total_difficulty
           /\ \A t \in PeerThreads :
                (peer_pc[t] = "reading" /\ peer_pc'[t] = "idle")
                    => \A u \in PeerThreads : ~InUpdate(u) ]_vars

\* An update is partly applied (the new height is stored, the new difficulty is
\* not yet) while the other thread, which has read before, is outside the lock.
C17_Witness ==
    \E t \in PeerThreads, u \in PeerThreads :
        /\ t # u
        /\ peer_pc[t] = "total_difficulty"
        /\ live_info.height = peer_args[t].height
        /\ live_info.height # peer_pre[t].live_info.height
        /\ live_info.total_difficulty # peer_args[t].total_difficulty
        /\ peer_pc[u] = "idle"
        /\ peer_got[u].field = "height"
        /\ peer_got[u].val = peer_pre[t].live_info.height

\* first_seen <= stuck_detector <= last_seen
Ordered(live) ==
    live.first_seen <= live.stuck_detector /\ live.stuck_detector <= live.last_seen

\* C18: two reads are not one transaction. Each accessor that from calls takes
\* the read guard and drops it before the next one is called, so between the
\* two reads the converting thread holds no guard and an update may be let in
\* whenever no other thread holds the lock; each value read is the one stored
\* at its own read. The pair read may therefore be one live_info never held.
C18_ReadsNotTransaction ==
    /\ [](/\ display_pc \in {"start", "between", "done"}
                => DisplayThread \notin lock.readers
          /\ (display_pc = "between" /\ \A t \in PeerThreads : peer_pc[t] = "idle")
                => CanWrite(lock))
    /\ [][ /\ (display_pc = "total_difficulty" /\ display_pc' = "between")
                => display'.total_difficulty = live_info.total_difficulty
           /\ (display_pc = "height" /\ display_pc' = "done")
                => display'.height = live_info.height ]_vars

\* from has returned a (height, total_difficulty) that live_info held at no
\* moment, not even between two statements of an update.
C18_Witness ==
    /\ display_pc = "done"
    /\ <<display.height, display.total_difficulty>> \notin stored_pairs

\* C20: the timestamps of a peer's live info, with a clock that does not go
\* backward. PeerLiveInfo::new sets height to 0 and total_difficulty to the value
\* supplied; no step changes first_seen; when an update has run its last
\* statement first_seen <= stuck_detector <= last_seen holds, and from then on
\* it holds whenever no update is between its first and its last statement,
\* so it holds after any sequence of one or more updates.
C20_TimestampInvariant ==
    /\ [](/\ \A t \in PeerThreads : peer_pc[t] = "updated" => Ordered(live_info)
          /\ \A difficulty \in Difficulties, r \in NewReadings :
                LET new == PeerLiveInfo_new(difficulty, r[1], r[2], r[3])
                IN  /\ new.height = 0
                    /\ new.total_difficulty = difficulty
                    /\ new.first_seen = r[1])
    /\ [][ /\ live_info'.first_seen = live_info.first_seen
           /\ ( /\ Ordered(live_info)
                /\ \A t \in PeerThreads :
                      peer_pc'[t] \notin {"height", "total_difficulty", "last_seen"} )
                => Ordered(live_info') ]_vars

\* Two updates later the three timestamps are strictly in order.
C20_Witness ==
    \E t \in PeerThreads :
        /\ peer_pc[t] = "updated"
        /\ live_info.first_seen < live_info.stuck_detector
        /\ live_info.stuck_detector < live_info.last_seen

\* C11: create_pow_context selects its backend from the chain type and edge_bits
\* only: under Mainnet and Floonet the primary backend (cuckarood) when
\* edge_bits <= 29 and the secondary backend (cuckatoo) when edge_bits > 29, under
\* the three testing chain types always the secondary backend; two calls that
\* differ in nothing but height select the same backend.
C11_BackendSelection ==
    /\ (last.op = "create_pow_context" /\ last.outcome = "ok")
          => last.val.backend =
                IF last.chain_type \in {"Mainnet", "Floonet"} /\ last.arg.edge_bits <= 29
                THEN "cuckarood" ELSE "cuckatoo"
    /\ ( /\ last.op = "create_pow_context" /\ last.outcome = "ok"
         /\ prev.op = "create_pow_context" /\ prev.outcome = "ok"
         /\ prev.chain_type = last.chain_type
         /\ prev.arg.edge_bits = last.arg.edge_bits )
          => prev.val.backend = last.val.backend

\* Mainnet at the boundary edge_bits = 29 gave the primary backend at two heights.
C11_Witness ==
    /\ last.op = "create_pow_context" /\ last.outcome = "ok"
    /\ prev.op = "create_pow_context" /\ prev.outcome = "ok"
    /\ last.chain_type = "Mainnet" /\ prev.chain_type = "Mainnet"
    /\ last.arg.edge_bits = 29 /\ prev.arg.edge_bits = 29
    /\ last.arg.height # prev.arg.height
    /\ last.val.backend = "cuckarood"

\* C12: the running flag is a one-way latch. Once a stop has been requested
\* (the flag no longer says running) no request_server_stop or is_server_running
\* call of any thread resets it, every request_server_stop leaves it in the
\* stop-requested state, a repeated one changes nothing, and every
\* is_server_running poll after a request reports the stop-requested state.
C12_OneWayLatch ==
    [][ /\ ~SERVER_RUNNING => ~SERVER_RUNNING'
        /\ Called("request_server_stop") => ~SERVER_RUNNING'
        /\ (Called("request_server_stop") /\ ~SERVER_RUNNING)
              => SERVER_RUNNING' = SERVER_RUNNING
        /\ (Called("is_server_running") /\ ~SERVER_RUNNING) => last'.val = FALSE
        /\ (Called("is_server_running") /\ SERVER_RUNNING) => last'.val = TRUE ]_vars

\* Two stop requests, then a poll by the other thread that reports the stop.
C12_Witness ==
    /\ calls >= 3
    /\ prev.op = "request_server_stop"
    /\ last.op = "is_server_running"
    /\ last.thread # prev.thread
    /\ last.val = FALSE
    /\ ~SERVER_RUNNING

\* C13: the deduplication key is consistent with equality. as_key is "ip:port"
\* for a loopback Ip address and "ip" alone for a non-loopback one, and the keys
\* of two addresses are equal exactly when the addresses are equal.
C13_KeyConsistentWithEq ==
    (key_result.done /\ eq_result.done) =>
        /\ IsIp(addr_self) =>
              key_result.self =
                  IF is_loopback(ip(addr_self))
                  THEN fmt_IpAddr(ip(addr_self)) \o <<58>> \o fmt_decimal(addr_self.port)
                  ELSE fmt_IpAddr(ip(addr_self))
        /\ (key_result.self = key_result.other) <=> eq_result.eq

\* C19: equality is an equivalence and hashing agrees with it. For all addresses
\* a, b, c: a == b implies b == a; a == b and b == c imply a == c; and a == b
\* implies that hash feeds the hasher the same data for a and for b, which holds
\* host and port for a loopback address, the host alone for a non-loopback one
\* and the string for an onion address.
C19_HashAgreesWithEq ==
    (eq_result.done /\ hash_result.done) =>
        /\ eq_result.eq => PeerAddr_eq(addr_other, addr_self)
        /\ \A c \in PeerAddrs :
              (eq_result.eq /\ PeerAddr_eq(addr_other, c)) => PeerAddr_eq(addr_self, c)
        /\ PeerAddr_eq(addr_self, addr_self)
        /\ eq_result.eq => hash_result.self = hash_result.other
        /\ LET h == hash_result.self
           IN  IF ~IsIp(addr_self)
               THEN h.type = "String" /\ h.str = addr_self.onion
               ELSE IF is_loopback(ip(addr_self))
               THEN /\ h.type \in {"SocketAddrV4", "SocketAddrV6"}
                    /\ h.host = addr_self.ip /\ h.port = addr_self.port
               ELSE /\ h.type \in {"Ipv4Addr", "Ipv6Addr"}
                    /\ h.host = addr_self.ip /\ h.port = 0

\* Two different addresses of one non-loopback host compared equal and fed the
\* hasher the same data.
C19_Witness ==
    /\ eq_result.done /\ hash_result.done
    /\ eq_result.eq
    /\ IsIp(addr_self) /\ ~is_loopback(ip(addr_self))
    /\ addr_self.port # addr_other.port
    /\ hash_result.self = hash_result.other

\* C14: decoding is defensive. PeerAddr::read takes every tag byte other than 0
\* and 1 (2, and 3 and 255 as well) for an onion address; when the length-prefixed
\* payload is complete it returns Ok, with the payload as the onion string when
\* the payload is well-formed UTF-8 and with the empty string when it is not, and
\* in both cases it has consumed the tag, the length and the whole payload, so
\* that what follows on the stream is what the next read is given.
C14_DefensiveDecoding ==
    (wire_result.done /\ wire.tag \notin {0, 1} /\ wire.cut = 0) =>
        /\ ~wire_result.err
        /\ wire_result.val.kind = "Onion"
        /\ wire_result.val.onion = IF wire.utf8 THEN wire.payload ELSE <<>>
        /\ wire_result.rest = wire.tail
        /\ (wire_next.done /\ wire.tail = <<0, 8, 8, 8, 8, 13, 86>>) =>
              /\ ~wire_next.err
              /\ wire_next.val = SocketAddrV4_new(<<8, 8, 8, 8>>, 3414)

\* Tag 255 with a payload that is not UTF-8 was read as Onion(""), and the
\* address after it was then read.
C14_Witness ==
    /\ wire.tag = 255 /\ ~wire.utf8 /\ wire.cut = 0
    /\ wire_result.done /\ ~wire_result.err
    /\ wire_result.val = Onion(<<>>)
    /\ wire_next.done /\ ~wire_next.err
    /\ wire_next.val.kind = "V4"

====
